---- MODULE Spec2Model ----
\* User Settings Service (GraphQL API): the resolvers of the two variants of
\* the service, the raw-SQL one with the result cache ("pg") and the
\* query-builder one without a cache ("kysely"), over one relational store.
EXTENDS Integers, Sequences, FiniteSets, TLC

\* ---------------------------------------------------------------------------
\* Bounds
\* ---------------------------------------------------------------------------
MaxBulk == 3        \* longest `updates` list of bulkUpdateSettings
MaxSettings == 2    \* longest `settings` list of updateSettings
MaxIds == 2         \* longest `ids` list of users
MaxList == 1        \* longest list argument of a write when every resolver runs
MaxTicks == 2       \* clock advances in one behaviour
MaxProcs == 2       \* requests in flight at once

\* ---------------------------------------------------------------------------
\* Values
\* ---------------------------------------------------------------------------
CACHE_TTL == 5 * 60 * 1000

\* Well-formed ids are numeric literals. TautId is an ID argument whose text is
\* a boolean expression once it is spliced into SQL text.
UserIds == {"1", "2"}
TautId == "0 OR 1=1"
AllIds == UserIds \cup {TautId}
Keys == {"a", "b"}
Values == {"v1", "v2"}

Null == [id |-> "null"]
NoError == "none"
NotFound == "User not found"
FkViolation == "foreign key violation"
StoreUnavailable == "store unavailable"

Variants == {"pg", "kysely"}
FkModes == {"none", "restrict", "cascade"}

VARIABLES
    variant,        \* which of the two sources serves the requests
    fk,             \* how activity_log.user_id references users.id
    users,          \* table users: set of rows
    settings,       \* table settings: set of rows
    activity_log,   \* table activity_log: set of rows
    cache,          \* the Map: cache key -> [data, timestamp]
    now,            \* Date.now()
    ticks,          \* number of clock advances so far
    last,           \* the last resolver call: arguments, statements, outcome
    procs,          \* the requests in flight: where each one is, its locals
    guard           \* the page with useExitGuard: its state, ref and props

vars == <<variant, fk, users, settings, activity_log, cache, now, ticks, last,
          procs, guard>>
\* Everything but the page.
service == <<variant, fk, users, settings, activity_log, cache, now, ticks,
             last, procs>>

\* ---------------------------------------------------------------------------
\* Store statements
\* ---------------------------------------------------------------------------
UserRow(id) == [id |-> id]
SettingRow(userId, key, value) ==
    [user_id |-> userId, setting_key |-> key, setting_value |-> value]
ActivityRow(userId) == [user_id |-> userId, action |-> "login"]

\* One issued statement, as the handler's log records it.
Stmt(sql, userId, key, value, ok) ==
    [sql |-> sql, user_id |-> userId, key |-> key, value |-> value, ok |-> ok]

\* SELECT ... FROM users WHERE id = $1
SelectUserById(utbl, id) == {r \in utbl : r.id = id}

\* SELECT ... FROM users WHERE id = ${id}: the argument is spliced into the
\* statement text, so the predicate is whatever the text says.
SelectUserInterpolated(utbl, id) ==
    IF id = TautId THEN utbl ELSE {r \in utbl : r.id = id}

\* settings.user_id REFERENCES users(id)
ForeignKeyOk(utbl, userId) == \E r \in utbl : r.id = userId

UpsertNoConflict(stbl, userId, key, value) ==
    stbl \cup {SettingRow(userId, key, value)}

\* INSERT INTO settings ... ON CONFLICT (user_id, setting_key) DO UPDATE SET ...
UpsertSetting(stbl, userId, key, value) ==
    IF \E r \in stbl : r.user_id = userId /\ r.setting_key = key
    THEN {IF r.user_id = userId /\ r.setting_key = key
          THEN [r EXCEPT !.setting_value = value] ELSE r : r \in stbl}
    ELSE stbl \cup {SettingRow(userId, key, value)}

\* RETURNING setting_key as key, setting_value as value: the row the upsert
\* wrote, read back from the table.
Returning(stbl, userId, key) ==
    LET row == CHOOSE r \in stbl : r.user_id = userId /\ r.setting_key = key
    IN  [key |-> row.setting_key, value |-> row.setting_value]

\* ---------------------------------------------------------------------------
\* Cache
\* ---------------------------------------------------------------------------
CacheKey(id) == "user:" \o id

getCacheNoTtl(c, t, key) ==
    IF key \in DOMAIN c THEN c[key].data ELSE Null

getCache(c, t, key) ==
    IF key \in DOMAIN c /\ t - c[key].timestamp < CACHE_TTL
    THEN c[key].data ELSE Null

setCache(c, t, key, data) ==
    [k \in DOMAIN c \cup {key} |->
        IF k = key THEN [data |-> data, timestamp |-> t] ELSE c[k]]

cacheDelete(c, key) == [k \in DOMAIN c \ {key} |-> c[k]]

\* ---------------------------------------------------------------------------
\* The record of one resolver call
\* ---------------------------------------------------------------------------
Call(op, args, result, error, stmts) ==
    [op |-> op, args |-> args, result |-> result, error |-> error,
     stmts |-> stmts]

\* What a handler leaves behind: the tables and the cache it wrote, what it
\* returned or raised, and the statements it issued, in order.
Outcome(utbl, stbl, atbl, c, result, error, stmts) ==
    [users |-> utbl, settings |-> stbl, activity_log |-> atbl, cache |-> c,
     result |-> result, error |-> error, stmts |-> stmts]

Range(s) == {s[i] : i \in 1..Len(s)}

\* ---------------------------------------------------------------------------
\* Mutations, raw-SQL variant (with the cache)
\* ---------------------------------------------------------------------------
RECURSIVE pgUpdateLoopSkipRepeated(_, _, _, _)
pgUpdateLoopSkipRepeated(entries, userId, utbl, st) ==
    IF entries = <<>> THEN st
    ELSE LET e == Head(entries) IN
         IF ForeignKeyOk(utbl, userId)
         THEN pgUpdateLoopSkipRepeated(Tail(entries), userId, utbl,
                [st EXCEPT
                   !.settings = UpsertSetting(@, userId, e.key, e.value),
                   !.updatedSettings =
                       IF \E i \in 1..Len(@) : @[i].key = e.key THEN @
                       ELSE Append(@, [key |-> e.key, value |-> e.value]),
                   !.stmts =
                       Append(@, Stmt("upsert", userId, e.key, e.value, TRUE))])
         ELSE [st EXCEPT
                 !.error = FkViolation,
                 !.stmts =
                     Append(@, Stmt("upsert", userId, e.key, e.value, FALSE))]

RECURSIVE pgUpdateLoop(_, _, _, _)
\* for (const { key, value } of settings) { upsert; updatedSettings.push }
\* st = [settings, updatedSettings, stmts, error]; a failed upsert throws.
pgUpdateLoop(entries, userId, utbl, st) ==
    IF entries = <<>> THEN st
    ELSE LET e == Head(entries) IN
         IF ForeignKeyOk(utbl, userId)
         THEN pgUpdateLoop(Tail(entries), userId, utbl,
                [st EXCEPT
                   !.settings = UpsertSetting(@, userId, e.key, e.value),
                   !.updatedSettings =
                       Append(@, Returning(
                           UpsertSetting(st.settings, userId, e.key, e.value),
                           userId, e.key)),
                   !.stmts =
                       Append(@, Stmt("upsert", userId, e.key, e.value, TRUE))])
         ELSE [st EXCEPT
                 !.error = FkViolation,
                 !.stmts =
                     Append(@, Stmt("upsert", userId, e.key, e.value, FALSE))]

pgUpdateSettingsNoCheck(userId, entries, utbl, stbl, atbl, c) ==
    LET st == pgUpdateLoop(entries, userId, utbl,
                 [settings |-> stbl, updatedSettings |-> <<>>,
                  stmts |-> <<Stmt("select_user", userId, "-", "-", TRUE)>>,
                  error |-> NoError])
    IN  IF st.error # NoError
        THEN Outcome(utbl, st.settings, atbl, c, Null, st.error, st.stmts)
        ELSE Outcome(utbl, st.settings, atbl,
                     cacheDelete(c, CacheKey(userId)),
                     [success |-> TRUE, user |-> UserRow(userId),
                      settings |-> st.updatedSettings],
                     NoError, st.stmts)

pgUpdateSettingsEmptyFails(userId, entries, utbl, stbl, atbl, c) ==
    LET userResult == SelectUserById(utbl, userId)
        sel == Stmt("select_user", userId, "-", "-", TRUE)
    IN  IF userResult = {}
        THEN Outcome(utbl, stbl, atbl, c, Null, NotFound, <<sel>>)
        ELSE LET st == pgUpdateLoop(entries, userId, utbl,
                          [settings |-> stbl, updatedSettings |-> <<>>,
                           stmts |-> <<sel>>, error |-> NoError])
             IN  IF st.error # NoError
                 THEN Outcome(utbl, st.settings, atbl, c, Null, st.error,
                              st.stmts)
                 ELSE Outcome(utbl, st.settings, atbl,
                              cacheDelete(c, CacheKey(userId)),
                              [success |-> st.updatedSettings # <<>>,
                               user |-> CHOOSE r \in userResult : TRUE,
                               settings |-> st.updatedSettings],
                              NoError, st.stmts)

pgUpdateSettingsKeepCache(userId, entries, utbl, stbl, atbl, c) ==
    LET userResult == SelectUserById(utbl, userId)
        sel == Stmt("select_user", userId, "-", "-", TRUE)
    IN  IF userResult = {}
        THEN Outcome(utbl, stbl, atbl, c, Null, NotFound, <<sel>>)
        ELSE LET st == pgUpdateLoop(entries, userId, utbl,
                          [settings |-> stbl, updatedSettings |-> <<>>,
                           stmts |-> <<sel>>, error |-> NoError])
             IN  Outcome(utbl, st.settings, atbl, c,
                         [success |-> TRUE,
                          user |-> CHOOSE r \in userResult : TRUE,
                          settings |-> st.updatedSettings],
                         st.error, st.stmts)

pgUpdateSettings(userId, entries, utbl, stbl, atbl, c) ==
    LET userResult == SelectUserById(utbl, userId)
        sel == Stmt("select_user", userId, "-", "-", TRUE)
    IN  IF userResult = {}
        THEN Outcome(utbl, stbl, atbl, c, Null, NotFound, <<sel>>)
        ELSE LET st == pgUpdateLoop(entries, userId, utbl,
                          [settings |-> stbl, updatedSettings |-> <<>>,
                           stmts |-> <<sel>>, error |-> NoError])
             IN  IF st.error # NoError
                 THEN Outcome(utbl, st.settings, atbl, c, Null, st.error,
                              st.stmts)
                 ELSE Outcome(utbl, st.settings, atbl,
                              cacheDelete(c, CacheKey(userId)),
                              [success |-> TRUE,
                               user |-> CHOOSE r \in userResult : TRUE,
                               settings |-> st.updatedSettings],
                              NoError, st.stmts)

\* DELETE FROM users WHERE id = $1, under the rule activity_log.user_id has.
DeleteUserRow(utbl, atbl, mode, id) ==
    IF mode = "restrict" /\ (\E r \in utbl : r.id = id)
                         /\ (\E a \in atbl : a.user_id = id)
    THEN [ok |-> FALSE, users |-> utbl, activity_log |-> atbl]
    ELSE [ok |-> TRUE, users |-> {r \in utbl : r.id # id},
          activity_log |-> IF mode = "cascade"
                           THEN {a \in atbl : a.user_id # id} ELSE atbl]

\* The same statement when settings rows of the user may still be there: a
\* store that cascades deletes them with the user, any other store rejects
\* the delete of a user that settings rows reference.
DeleteUsersStmt(utbl, stbl, atbl, mode, id) ==
    LET referenced == /\ \E r \in utbl : r.id = id
                      /\ \E r \in stbl : r.user_id = id
        del == DeleteUserRow(utbl, atbl, mode, id)
    IN  IF referenced /\ mode # "cascade"
        THEN [ok |-> FALSE, users |-> utbl, settings |-> stbl,
              activity_log |-> atbl]
        ELSE [ok |-> del.ok, users |-> del.users,
              settings |-> IF del.ok /\ mode = "cascade"
                           THEN {r \in stbl : r.user_id # id} ELSE stbl,
              activity_log |-> del.activity_log]

pgDeleteUser(id, utbl, stbl, atbl, c, mode) ==
    LET stbl1 == {r \in stbl : r.user_id # id}
        del == DeleteUserRow(utbl, atbl, mode, id)
        stmts == <<Stmt("delete_settings", id, "-", "-", TRUE),
                   Stmt("delete_users", id, "-", "-", del.ok)>>
    IN  IF ~del.ok
        THEN Outcome(utbl, stbl1, atbl, c, Null, FkViolation, stmts)
        ELSE Outcome(del.users, stbl1, del.activity_log,
                     cacheDelete(c, CacheKey(id)),
                     [success |-> TRUE, deletedId |-> id], NoError, stmts)

pgBulkTryKeepCache(st, utbl, u) ==
    IF ForeignKeyOk(utbl, u.userId)
    THEN [st EXCEPT
            !.settings = UpsertSetting(@, u.userId, u.key, u.value),
            !.updatedCount = @ + 1,
            !.stmts = Append(@, Stmt("upsert", u.userId, u.key, u.value, TRUE))]
    ELSE [st EXCEPT
            !.failedUserIds = Append(@, u.userId),
            !.stmts = Append(@, Stmt("upsert", u.userId, u.key, u.value, FALSE))]

\* try { upsert; updatedCount++; cache.delete } catch { failedUserIds.push }
\* st = [settings, cache, updatedCount, failedUserIds, stmts]
pgBulkTry(st, utbl, u) ==
    IF ForeignKeyOk(utbl, u.userId)
    THEN [st EXCEPT
            !.settings = UpsertSetting(@, u.userId, u.key, u.value),
            !.updatedCount = @ + 1,
            !.cache = cacheDelete(@, CacheKey(u.userId)),
            !.stmts = Append(@, Stmt("upsert", u.userId, u.key, u.value, TRUE))]
    ELSE [st EXCEPT
            !.failedUserIds = Append(@, u.userId),
            !.stmts = Append(@, Stmt("upsert", u.userId, u.key, u.value, FALSE))]

RECURSIVE pgBulkLoopShortCircuit(_, _, _)
pgBulkLoopShortCircuit(updates, utbl, st) ==
    IF updates = <<>> THEN st
    ELSE LET st1 == pgBulkTry(st, utbl, Head(updates)) IN
         IF Len(st1.failedUserIds) > Len(st.failedUserIds) THEN st1
         ELSE pgBulkLoopShortCircuit(Tail(updates), utbl, st1)

RECURSIVE pgBulkLoop(_, _, _)
\* for (const { userId, key, value } of updates) { try ... catch ... }
pgBulkLoop(updates, utbl, st) ==
    IF updates = <<>> THEN st
    ELSE pgBulkLoop(Tail(updates), utbl, pgBulkTry(st, utbl, Head(updates)))

pgBulkUpdateSettingsAnySuccess(updates, utbl, stbl, atbl, c) ==
    LET st == pgBulkLoop(updates, utbl,
                 [settings |-> stbl, cache |-> c, updatedCount |-> 0,
                  failedUserIds |-> <<>>, stmts |-> <<>>])
    IN  Outcome(utbl, st.settings, atbl, st.cache,
                [success |-> st.updatedCount > 0,
                 updatedCount |-> st.updatedCount,
                 failedUserIds |-> st.failedUserIds],
                NoError, st.stmts)

pgBulkUpdateSettings(updates, utbl, stbl, atbl, c) ==
    LET st == pgBulkLoop(updates, utbl,
                 [settings |-> stbl, cache |-> c, updatedCount |-> 0,
                  failedUserIds |-> <<>>, stmts |-> <<>>])
    IN  Outcome(utbl, st.settings, atbl, st.cache,
                [success |-> Len(st.failedUserIds) = 0,
                 updatedCount |-> st.updatedCount,
                 failedUserIds |-> st.failedUserIds],
                NoError, st.stmts)

\* ---------------------------------------------------------------------------
\* Mutations, query-builder variant (no cache)
\* ---------------------------------------------------------------------------
RECURSIVE kyUpdateLoop(_, _, _, _)
kyUpdateLoop(entries, userId, utbl, st) ==
    IF entries = <<>> THEN st
    ELSE LET e == Head(entries) IN
         IF ForeignKeyOk(utbl, userId)
         THEN kyUpdateLoop(Tail(entries), userId, utbl,
                [st EXCEPT
                   !.settings = UpsertSetting(@, userId, e.key, e.value),
                   !.updatedSettings =
                       Append(@, Returning(
                           UpsertSetting(st.settings, userId, e.key, e.value),
                           userId, e.key)),
                   !.stmts =
                       Append(@, Stmt("upsert", userId, e.key, e.value, TRUE))])
         ELSE [st EXCEPT
                 !.error = FkViolation,
                 !.stmts =
                     Append(@, Stmt("upsert", userId, e.key, e.value, FALSE))]

kyUpdateSettings(userId, entries, utbl, stbl, atbl, c) ==
    LET user == SelectUserById(utbl, userId)
        sel == Stmt("select_user", userId, "-", "-", TRUE)
    IN  IF user = {}
        THEN Outcome(utbl, stbl, atbl, c, Null, NotFound, <<sel>>)
        ELSE LET st == kyUpdateLoop(entries, userId, utbl,
                          [settings |-> stbl, updatedSettings |-> <<>>,
                           stmts |-> <<sel>>, error |-> NoError])
             IN  IF st.error # NoError
                 THEN Outcome(utbl, st.settings, atbl, c, Null, st.error,
                              st.stmts)
                 ELSE Outcome(utbl, st.settings, atbl, c,
                              [success |-> TRUE,
                               user |-> CHOOSE r \in user : TRUE,
                               settings |-> st.updatedSettings],
                              NoError, st.stmts)

kyDeleteUser(id, utbl, stbl, atbl, c, mode) ==
    LET atbl1 == {a \in atbl : a.user_id # id}
        stbl1 == {r \in stbl : r.user_id # id}
        del == DeleteUserRow(utbl, atbl1, mode, id)
        stmts == <<Stmt("delete_activity_log", id, "-", "-", TRUE),
                   Stmt("delete_settings", id, "-", "-", TRUE),
                   Stmt("delete_users", id, "-", "-", del.ok)>>
    IN  IF ~del.ok
        THEN Outcome(utbl, stbl1, atbl1, c, Null, FkViolation, stmts)
        ELSE Outcome(del.users, stbl1, del.activity_log, c,
                     [success |-> TRUE, deletedId |-> id], NoError, stmts)

\* try { upsert; updatedCount++ } catch { failedUserIds.push(userId) }
kyBulkTry(st, utbl, u) ==
    IF ForeignKeyOk(utbl, u.userId)
    THEN [st EXCEPT
            !.settings = UpsertSetting(@, u.userId, u.key, u.value),
            !.updatedCount = @ + 1,
            !.stmts = Append(@, Stmt("upsert", u.userId, u.key, u.value, TRUE))]
    ELSE [st EXCEPT
            !.failedUserIds = Append(@, u.userId),
            !.stmts = Append(@, Stmt("upsert", u.userId, u.key, u.value, FALSE))]

RECURSIVE kyBulkLoop(_, _, _)
kyBulkLoop(updates, utbl, st) ==
    IF updates = <<>> THEN st
    ELSE kyBulkLoop(Tail(updates), utbl, kyBulkTry(st, utbl, Head(updates)))

kyBulkUpdateSettings(updates, utbl, stbl, atbl, c) ==
    LET st == kyBulkLoop(updates, utbl,
                 [settings |-> stbl, updatedCount |-> 0,
                  failedUserIds |-> <<>>, stmts |-> <<>>])
    IN  Outcome(utbl, st.settings, atbl, c,
                [success |-> Len(st.failedUserIds) = 0,
                 updatedCount |-> st.updatedCount,
                 failedUserIds |-> st.failedUserIds],
                NoError, st.stmts)

\* ---------------------------------------------------------------------------
\* Queries
\* ---------------------------------------------------------------------------
\* Query.user of the query-builder variant: a point lookup, no cache.
kyUser(id, utbl) ==
    LET user == SelectUserById(utbl, id)
    IN  IF user # {} THEN CHOOSE r \in user : TRUE ELSE Null

\* Query.users of the query-builder variant.
kyUsers(ids, utbl) == [i \in 1..Len(ids) |-> kyUser(ids[i], utbl)]

\* Query.users of the raw-SQL variant. Every callback of ids.map runs up to
\* its first await before any of them resumes, so each id reads the cache as
\* the call found it; a found row is then put in the cache.
pgUsersResults(ids, utbl, c, t) ==
    [i \in 1..Len(ids) |->
        LET cached == getCache(c, t, CacheKey(ids[i]))
            rows == SelectUserById(utbl, ids[i])
        IN  IF cached # Null THEN cached
            ELSE IF rows # {} THEN CHOOSE r \in rows : TRUE ELSE Null]

pgUsersMisses(ids, c, t) ==
    SelectSeq(ids, LAMBDA id : getCache(c, t, CacheKey(id)) = Null)

RECURSIVE pgUsersFill(_, _, _, _)
pgUsersFill(misses, utbl, c, t) ==
    IF misses = <<>> THEN c
    ELSE LET rows == SelectUserById(utbl, Head(misses)) IN
         pgUsersFill(Tail(misses), utbl,
             IF rows # {}
             THEN setCache(c, t, CacheKey(Head(misses)),
                           CHOOSE r \in rows : TRUE)
             ELSE c, t)

pgUsers(ids, utbl, stbl, atbl, c, t) ==
    LET misses == pgUsersMisses(ids, c, t)
    IN  Outcome(utbl, stbl, atbl, pgUsersFill(misses, utbl, c, t),
                pgUsersResults(ids, utbl, c, t), NoError,
                [i \in 1..Len(misses) |->
                    Stmt("select_user", misses[i], "-", "-", TRUE)])

\* Query.me, the same in both variants. An absent identity is the empty string.
NoIdentity == ""

meNoGuard(ctxUserId, utbl) ==
    LET rows == SelectUserById(utbl, ctxUserId)
    IN  [result |-> IF rows # {} THEN CHOOSE r \in rows : TRUE ELSE Null,
         stmts |-> <<Stmt("select_user", ctxUserId, "-", "-", TRUE)>>]

me(ctxUserId, utbl) ==
    IF ctxUserId = NoIdentity
    THEN [result |-> Null, stmts |-> <<>>]
    ELSE LET rows == SelectUserById(utbl, ctxUserId)
         IN  [result |-> IF rows # {} THEN CHOOSE r \in rows : TRUE ELSE Null,
              stmts |-> <<Stmt("select_user", ctxUserId, "-", "-", TRUE)>>]

\* Setting.updatedBy, the same in both variants. A setting without a recorded
\* updater has the empty string as updatedById.
NoUpdater == ""

updatedByNoGuard(setting, utbl) ==
    LET rows == SelectUserById(utbl, setting.updatedById)
    IN  [result |-> IF rows # {} THEN CHOOSE r \in rows : TRUE ELSE Null,
         stmts |-> <<Stmt("select_user", setting.updatedById, "-", "-", TRUE)>>]

updatedBy(setting, utbl) ==
    IF setting.updatedById = NoUpdater
    THEN [result |-> Null, stmts |-> <<>>]
    ELSE LET rows == SelectUserById(utbl, setting.updatedById)
         IN  [result |-> IF rows # {} THEN CHOOSE r \in rows : TRUE ELSE Null,
              stmts |-> <<Stmt("select_user", setting.updatedById,
                               "-", "-", TRUE)>>]

\* ---------------------------------------------------------------------------
\* Request context
\* ---------------------------------------------------------------------------
\* String.prototype.replace(pattern, ""): the first occurrence of the pattern
\* is cut out, wherever it is; a string without the pattern is left as it is.
Replace(str, pattern) ==
    LET n == Len(str)
        m == Len(pattern)
        at == {i \in 1..(n - m + 1) : SubSeq(str, i, i + m - 1) = pattern}
    IN  IF at = {} THEN str
        ELSE LET i == CHOOSE j \in at : \A k \in at : j <= k
             IN  SubSeq(str, 1, i - 1) \o SubSeq(str, i + m, n)

\* Buffer.from(token, "base64").toString() on the credentials of the model.
\* It never throws: characters outside the alphabet are skipped.
Base64Decode(token) ==
    CASE token = "eyJ1c2VySWQiOiIxIn0=" -> "{\"userId\":\"1\"}"
      [] token = "eyJ1c2VySWQiOiIyIn0=" -> "{\"userId\":\"2\"}"
      [] token = "eyJ1c2VySWQiOiIwIE9SIDE9MSJ9" -> "{\"userId\":\"0 OR 1=1\"}"
      [] token = "e30=" -> "{}"
      [] token = "bnVsbA==" -> "null"
      [] token = "aGk=" -> "hi"
      [] OTHER -> ""

\* JSON.parse on the texts of the model: the value, or the SyntaxError. A
\* member the object does not have reads as the empty string.
JsonParse(text) ==
    CASE text = "{\"userId\":\"1\"}" ->
             [ok |-> TRUE, type |-> "object", userId |-> "1"]
      [] text = "{\"userId\":\"2\"}" ->
             [ok |-> TRUE, type |-> "object", userId |-> "2"]
      [] text = "{\"userId\":\"0 OR 1=1\"}" ->
             [ok |-> TRUE, type |-> "object", userId |-> TautId]
      [] text = "{}" -> [ok |-> TRUE, type |-> "object", userId |-> NoIdentity]
      [] text = "null" -> [ok |-> TRUE, type |-> "null", userId |-> NoIdentity]
      [] OTHER -> [ok |-> FALSE, type |-> "SyntaxError", userId |-> NoIdentity]

\* The body of the try block: JSON.parse(...) and then decoded.userId, which
\* throws a TypeError when decoded is null.
DecodeUserId(token) ==
    LET decoded == JsonParse(Base64Decode(token))
    IN  IF ~decoded.ok THEN [threw |-> "SyntaxError", userId |-> NoIdentity]
        ELSE IF decoded.type = "null"
        THEN [threw |-> "TypeError", userId |-> NoIdentity]
        ELSE [threw |-> NoError, userId |-> decoded.userId]

contextNoCatch(headers) ==
    IF "authorization" \notin DOMAIN headers
    THEN [userId |-> NoIdentity, error |-> NoError]
    ELSE LET token == Replace(headers["authorization"], "Bearer ") IN
         IF token = ""
         THEN [userId |-> NoIdentity, error |-> NoError]
         ELSE [userId |-> DecodeUserId(token).userId,
               error |-> DecodeUserId(token).threw]

\* context: async ({ req }) => ...; headers is req.headers, a map that has
\* the key "authorization" or not.
context(headers) ==
    IF "authorization" \notin DOMAIN headers
    THEN [userId |-> NoIdentity, error |-> NoError]
    ELSE LET token == Replace(headers["authorization"], "Bearer ") IN
         IF token = ""
         THEN [userId |-> NoIdentity, error |-> NoError]
         ELSE IF DecodeUserId(token).threw # NoError
         THEN [userId |-> NoIdentity, error |-> NoError]
         ELSE [userId |-> DecodeUserId(token).userId, error |-> NoError]

\* ---------------------------------------------------------------------------
\* Inputs
\* ---------------------------------------------------------------------------
SeqsUpTo(S, n) == UNION {[1..k -> S] : k \in 0..n}

SettingInput == [key : Keys, value : Values]
BulkSettingInput == [userId : UserIds, key : Keys, value : {"v1"}]
\* One-entry writes, for the specifications that are about something else.
OneSetting == [key : {"a"}, value : {"v1"}]
KeyedSetting == [key : Keys, value : {"v1"}]
OneBulkSetting == [userId : AllIds, key : {"a"}, value : {"v1"}]
TickSteps == {1, CACHE_TTL - 1}
\* Settings as a parent resolver hands them on: with or without an updater.
SettingParents == [updatedById : AllIds \cup {NoUpdater}]
\* Credentials: three that decode to an identity, an object without userId,
\* the JSON null, a text that is not JSON, and one that is not base64 at all.
Tokens == {"eyJ1c2VySWQiOiIxIn0=", "eyJ1c2VySWQiOiIyIn0=",
           "eyJ1c2VySWQiOiIwIE9SIDE9MSJ9", "e30=", "bnVsbA==", "aGk=", "!!!"}
\* req.headers: no authorization header, an empty one, the bare scheme, a
\* token behind the scheme, a token without the scheme.
RequestHeaders ==
    {[k \in {} |-> ""]}
      \cup {[k \in {"authorization"} |-> v] :
               v \in {"", "Bearer "} \cup Tokens
                      \cup {"Bearer " \o t : t \in Tokens}}

\* ---------------------------------------------------------------------------
\* Requests in flight
\* ---------------------------------------------------------------------------
Procs == 1..MaxProcs

\* A request that has not arrived, one that awaits a statement or runs the
\* code after it, one that has returned or raised.
IdleProc ==
    [op |-> "idle", pc |-> "idle", args |-> <<>>, local |-> <<>>,
     result |-> Null, error |-> NoError]
Running(op, args, pc, local) ==
    [op |-> op, pc |-> pc, args |-> args, local |-> local,
     result |-> Null, error |-> NoError]
Done(op, args, result, error) ==
    [op |-> op, pc |-> "done", args |-> args, local |-> <<>>,
     result |-> result, error |-> error]

\* ---------------------------------------------------------------------------
\* useExitGuard
\* ---------------------------------------------------------------------------
\* The page of the form and the pages its links lead to.
FormPage == "/form"
Pages == {FormPage, "/page-a", "/page-b"}
\* useState(null)
NullLocation == [pathname |-> "null"]

\* The hook as it is mounted: showModal, nextLocation, bypassRef.current, the
\* prop hasChanges, the page the router shows; and, for the record, the last
\* navigation the router was asked for (its target, who asked, whether it was
\* blocked or threw) and the target whose blocking opened the modal.
NoAttempt == [by |-> "none", target |-> "null", blocked |-> FALSE,
              error |-> NoError]
GuardInit ==
    [hasChanges |-> FALSE, showModal |-> FALSE, nextLocation |-> NullLocation,
     bypassRef |-> FALSE, location |-> FormPage, attempt |-> NoAttempt,
     opened |-> "null"]

blockerKeepFirst(g, target) ==
    IF g.hasChanges /\ ~g.bypassRef
    THEN [g EXCEPT !.nextLocation = IF g.showModal THEN @
                                    ELSE [pathname |-> target],
                   !.showModal = TRUE,
                   !.attempt.blocked = TRUE,
                   !.opened = IF g.showModal THEN @ ELSE target]
    ELSE [g EXCEPT !.location = target, !.attempt.blocked = FALSE]

\* The function handed to useBlocker, and what the router does with its
\* answer: a blocked navigation leaves the page, any other one changes it.
\* The state it sets is rendered before the next event.
blocker(g, target) ==
    IF g.hasChanges /\ ~g.bypassRef
    THEN [g EXCEPT !.nextLocation = [pathname |-> target],
                   !.showModal = TRUE,
                   !.attempt.blocked = TRUE,
                   !.opened = IF g.showModal THEN @ ELSE target]
    ELSE [g EXCEPT !.location = target, !.attempt.blocked = FALSE]

handleConfirmNoBypass(g) ==
    IF g.nextLocation = NullLocation
    THEN [g EXCEPT !.showModal = FALSE,
                   !.attempt = [by |-> "handleConfirm", target |-> "null",
                                blocked |-> FALSE, error |-> "TypeError"]]
    ELSE blocker([g EXCEPT !.showModal = FALSE,
                           !.attempt = [by |-> "handleConfirm",
                                        target |-> g.nextLocation.pathname,
                                        blocked |-> FALSE,
                                        error |-> NoError]],
                 g.nextLocation.pathname)

\* handleConfirm: the ref, setShowModal(false), navigate(nextLocation.pathname);
\* reading pathname of null throws.
handleConfirm(g) ==
    IF g.nextLocation = NullLocation
    THEN [g EXCEPT !.bypassRef = TRUE, !.showModal = FALSE,
                   !.attempt = [by |-> "handleConfirm", target |-> "null",
                                blocked |-> FALSE, error |-> "TypeError"]]
    ELSE blocker([g EXCEPT !.bypassRef = TRUE, !.showModal = FALSE,
                           !.attempt = [by |-> "handleConfirm",
                                        target |-> g.nextLocation.pathname,
                                        blocked |-> FALSE,
                                        error |-> NoError]],
                 g.nextLocation.pathname)

\* ---------------------------------------------------------------------------
\* Initial state
\* ---------------------------------------------------------------------------
Init ==
    /\ variant \in Variants
    /\ fk \in FkModes
    /\ \E ids \in SUBSET UserIds :
         /\ users = {UserRow(id) : id \in ids}
         /\ activity_log \in SUBSET {ActivityRow(id) : id \in ids}
    /\ settings = {}
    /\ cache = [k \in {} |-> Null]
    /\ now = 0
    /\ ticks = 0
    /\ last = Call("none", <<>>, Null, NoError, <<>>)
    /\ procs = [p \in Procs |-> IdleProc]
    /\ guard = GuardInit

\* ---------------------------------------------------------------------------
\* Actions: one per resolver and variant
\* ---------------------------------------------------------------------------
Return(op, args, out) ==
    /\ users' = out.users
    /\ settings' = out.settings
    /\ activity_log' = out.activity_log
    /\ cache' = out.cache
    /\ last' = Call(op, args, out.result, out.error, out.stmts)
    /\ UNCHANGED <<guard, variant, fk, now, ticks, procs>>

\* Query.user, raw-SQL variant: cache, then the spliced SELECT; rows[0] of a
\* SELECT without ORDER BY is any of the matching rows.
PgUser(id) ==
    /\ variant = "pg"
    /\ LET cached == getCache(cache, now, CacheKey(id))
           sel == Stmt("select_user", id, "-", "-", TRUE)
       IN  IF cached # Null
           THEN Return("user", id,
                    Outcome(users, settings, activity_log, cache, cached,
                            NoError, <<>>))
           ELSE LET rows == SelectUserInterpolated(users, id) IN
                IF rows = {}
                THEN Return("user", id,
                         Outcome(users, settings, activity_log, cache, Null,
                                 NoError, <<sel>>))
                ELSE \E row \in rows :
                       Return("user", id,
                         Outcome(users, settings, activity_log,
                                 setCache(cache, now, CacheKey(id), row),
                                 row, NoError, <<sel>>))

KyUser(id) ==
    /\ variant = "kysely"
    /\ Return("user", id,
          Outcome(users, settings, activity_log, cache, kyUser(id, users),
                  NoError, <<Stmt("select_user", id, "-", "-", TRUE)>>))

PgUsers(ids) ==
    /\ variant = "pg"
    /\ Return("users", ids,
              pgUsers(ids, users, settings, activity_log, cache, now))

KyUsers(ids) ==
    /\ variant = "kysely"
    /\ Return("users", ids,
          Outcome(users, settings, activity_log, cache, kyUsers(ids, users),
                  NoError,
                  [i \in 1..Len(ids) |->
                      Stmt("select_user", ids[i], "-", "-", TRUE)]))

Me(ctxUserId) ==
    /\ variant \in Variants
    /\ Return("me", ctxUserId,
          Outcome(users, settings, activity_log, cache,
                  me(ctxUserId, users).result, NoError,
                  me(ctxUserId, users).stmts))

UpdatedBy(setting) ==
    /\ variant \in Variants
    /\ Return("updatedBy", setting,
          Outcome(users, settings, activity_log, cache,
                  updatedBy(setting, users).result, NoError,
                  updatedBy(setting, users).stmts))

\* The context function of one request; the resolver that runs in the
\* context is a step of its own.
Context(headers) ==
    /\ variant \in Variants
    /\ Return("context", headers,
          Outcome(users, settings, activity_log, cache,
                  [userId |-> context(headers).userId],
                  context(headers).error, <<>>))

PgUpdateSettings(userId, entries) ==
    /\ variant = "pg"
    /\ Return("updateSettings", [userId |-> userId, settings |-> entries],
          pgUpdateSettings(userId, entries, users, settings, activity_log,
                           cache))

KyUpdateSettings(userId, entries) ==
    /\ variant = "kysely"
    /\ Return("updateSettings", [userId |-> userId, settings |-> entries],
          kyUpdateSettings(userId, entries, users, settings, activity_log,
                           cache))

PgDeleteUser(id) ==
    /\ variant = "pg"
    /\ Return("deleteUser", id,
          pgDeleteUser(id, users, settings, activity_log, cache, fk))

KyDeleteUser(id) ==
    /\ variant = "kysely"
    /\ Return("deleteUser", id,
          kyDeleteUser(id, users, settings, activity_log, cache, fk))

PgBulkUpdateSettings(updates) ==
    /\ variant = "pg"
    /\ Return("bulkUpdateSettings", updates,
          pgBulkUpdateSettings(updates, users, settings, activity_log, cache))

KyBulkUpdateSettings(updates) ==
    /\ variant = "kysely"
    /\ Return("bulkUpdateSettings", updates,
          kyBulkUpdateSettings(updates, users, settings, activity_log, cache))

\* Time passes between two requests.
Tick(d) ==
    /\ ticks < MaxTicks
    /\ now' = now + d
    /\ ticks' = ticks + 1
    /\ UNCHANGED <<guard, variant, fk, users, settings, activity_log, cache, last,
                   procs>>

\* ---------------------------------------------------------------------------
\* Actions: the resolvers statement by statement
\* ---------------------------------------------------------------------------
\* Each store statement is one step; the code between two awaits runs in one
\* step with the statement it follows only where it touches nothing shared.
At(p, op, pc) == procs[p].op = op /\ procs[p].pc = pc

\* Query.user: the cache is read when the request arrives.
UserStart(p, id) ==
    /\ variant = "pg"
    /\ procs[p].pc = "idle"
    /\ LET cached == getCache(cache, now, CacheKey(id)) IN
       procs' = [procs EXCEPT ![p] =
                    IF cached # Null THEN Done("user", id, cached, NoError)
                    ELSE Running("user", id, "select_user", Null)]
    /\ UNCHANGED <<guard, variant, fk, users, settings, activity_log, cache, now,
                   ticks, last>>

\* The SELECT runs in the store; rows[0] is kept.
UserSelect(p) ==
    /\ At(p, "user", "select_user")
    /\ LET rows == SelectUserInterpolated(users, procs[p].args) IN
       IF rows = {}
       THEN procs' = [procs EXCEPT ![p].pc = "set_cache"]
       ELSE \E row \in rows :
              procs' = [procs EXCEPT ![p].pc = "set_cache", ![p].local = row]
    /\ UNCHANGED <<guard, variant, fk, users, settings, activity_log, cache, now,
                   ticks, last>>

\* The code after the await: setCache and return, or return null.
UserSetCache(p) ==
    /\ At(p, "user", "set_cache")
    /\ cache' = IF procs[p].local = Null THEN cache
                ELSE setCache(cache, now, CacheKey(procs[p].args),
                              procs[p].local)
    /\ procs' = [procs EXCEPT ![p] =
                    Done("user", procs[p].args, procs[p].local, NoError)]
    /\ UNCHANGED <<guard, variant, fk, users, settings, activity_log, now, ticks,
                   last>>

\* Query.users: ids.map runs every callback up to its await, so the cache is
\* read for every id when the request arrives.
UsersStart(p, ids) ==
    /\ variant = "pg"
    /\ procs[p].pc = "idle"
    /\ procs' = [procs EXCEPT ![p] =
          Running("users", ids, "map",
             [i \in 1..Len(ids) |->
                LET cached == getCache(cache, now, CacheKey(ids[i])) IN
                IF cached # Null THEN [state |-> "done", value |-> cached]
                ELSE [state |-> "select_user", value |-> Null]])]
    /\ UNCHANGED <<guard, variant, fk, users, settings, activity_log, cache, now,
                   ticks, last>>

\* The SELECT of one of the ids, in whatever order the store takes them.
UsersSelect(p) ==
    /\ At(p, "users", "map")
    /\ \E i \in 1..Len(procs[p].local) :
         /\ procs[p].local[i].state = "select_user"
         /\ LET rows == SelectUserById(users, procs[p].args[i]) IN
            procs' = [procs EXCEPT ![p].local[i] =
                         [state |-> "set_cache",
                          value |-> IF rows # {} THEN CHOOSE r \in rows : TRUE
                                    ELSE Null]]
    /\ UNCHANGED <<guard, variant, fk, users, settings, activity_log, cache, now,
                   ticks, last>>

\* The code after one id's await.
UsersSetCache(p) ==
    /\ At(p, "users", "map")
    /\ \E i \in 1..Len(procs[p].local) :
         /\ procs[p].local[i].state = "set_cache"
         /\ cache' = IF procs[p].local[i].value = Null THEN cache
                     ELSE setCache(cache, now, CacheKey(procs[p].args[i]),
                                   procs[p].local[i].value)
         /\ procs' = [procs EXCEPT ![p].local[i].state = "done"]
    /\ UNCHANGED <<guard, variant, fk, users, settings, activity_log, now, ticks,
                   last>>

\* Promise.all resolves.
UsersReturn(p) ==
    /\ At(p, "users", "map")
    /\ \A i \in 1..Len(procs[p].local) : procs[p].local[i].state = "done"
    /\ procs' = [procs EXCEPT ![p] =
          Done("users", procs[p].args,
               [i \in 1..Len(procs[p].local) |-> procs[p].local[i].value],
               NoError)]
    /\ UNCHANGED <<guard, variant, fk, users, settings, activity_log, cache, now,
                   ticks, last>>

\* Mutation.deleteUser arrives: its first statement is the delete of the
\* activity entries in the query-builder variant, of the settings in the
\* raw-SQL variant.
DeleteStart(p, id) ==
    /\ procs[p].pc = "idle"
    /\ procs' = [procs EXCEPT ![p] =
          Running("deleteUser", id,
                  IF variant = "kysely" THEN "delete_activity_log"
                  ELSE "delete_settings", <<>>)]
    /\ UNCHANGED <<guard, variant, fk, users, settings, activity_log, cache, now,
                   ticks, last>>

DeleteActivity(p) ==
    /\ At(p, "deleteUser", "delete_activity_log")
    /\ activity_log' = {a \in activity_log : a.user_id # procs[p].args}
    /\ procs' = [procs EXCEPT ![p].pc = "delete_settings"]
    /\ UNCHANGED <<guard, variant, fk, users, settings, cache, now, ticks, last>>

DeleteSettings(p) ==
    /\ At(p, "deleteUser", "delete_settings")
    /\ settings' = {r \in settings : r.user_id # procs[p].args}
    /\ procs' = [procs EXCEPT ![p].pc = "delete_users"]
    /\ UNCHANGED <<guard, variant, fk, users, activity_log, cache, now, ticks, last>>

\* DELETE FROM users; the raw-SQL variant has its cache.delete left to do.
DeleteUsers(p) ==
    /\ At(p, "deleteUser", "delete_users")
    /\ LET del == DeleteUsersStmt(users, settings, activity_log, fk,
                                  procs[p].args)
       IN  /\ users' = del.users
           /\ settings' = del.settings
           /\ activity_log' = del.activity_log
           /\ procs' = [procs EXCEPT ![p] =
                 IF ~del.ok
                 THEN Done("deleteUser", procs[p].args, Null, FkViolation)
                 ELSE IF variant = "pg"
                 THEN Running("deleteUser", procs[p].args, "invalidate", <<>>)
                 ELSE Done("deleteUser", procs[p].args,
                           [success |-> TRUE, deletedId |-> procs[p].args],
                           NoError)]
    /\ UNCHANGED <<guard, variant, fk, cache, now, ticks, last>>

\* cache.delete(`user:${id}`) and the return.
DeleteInvalidate(p) ==
    /\ At(p, "deleteUser", "invalidate")
    /\ cache' = cacheDelete(cache, CacheKey(procs[p].args))
    /\ procs' = [procs EXCEPT ![p] =
          Done("deleteUser", procs[p].args,
               [success |-> TRUE, deletedId |-> procs[p].args], NoError)]
    /\ UNCHANGED <<guard, variant, fk, users, settings, activity_log, now, ticks,
                   last>>

\* Mutation.updateSettings arrives.
UpdateStart(p, userId, entries) ==
    /\ procs[p].pc = "idle"
    /\ procs' = [procs EXCEPT ![p] =
          Running("updateSettings", [userId |-> userId, settings |-> entries],
                  "select_user",
                  [todo |-> entries, updatedSettings |-> <<>>,
                   user |-> Null])]
    /\ UNCHANGED <<guard, variant, fk, users, settings, activity_log, cache, now,
                   ticks, last>>

\* The existence check: the SELECT, and the throw when it found nothing.
UpdateSelect(p) ==
    /\ At(p, "updateSettings", "select_user")
    /\ LET rows == SelectUserById(users, procs[p].args.userId) IN
       procs' = [procs EXCEPT ![p] =
          IF rows = {}
          THEN Done("updateSettings", procs[p].args, Null, NotFound)
          ELSE [procs[p] EXCEPT !.pc = "upsert",
                                !.local.user = CHOOSE r \in rows : TRUE]]
    /\ UNCHANGED <<guard, variant, fk, users, settings, activity_log, cache, now,
                   ticks, last>>

\* The upsert of the next entry; a failed one ends the call.
UpdateUpsert(p) ==
    /\ At(p, "updateSettings", "upsert")
    /\ procs[p].local.todo # <<>>
    /\ LET e == Head(procs[p].local.todo)
           userId == procs[p].args.userId
       IN  IF ForeignKeyOk(users, userId)
           THEN /\ settings' = UpsertSetting(settings, userId, e.key, e.value)
                /\ procs' = [procs EXCEPT
                      ![p].local.todo = Tail(@),
                      ![p].local.updatedSettings =
                          Append(@, Returning(settings', userId, e.key))]
           ELSE /\ settings' = settings
                /\ procs' = [procs EXCEPT ![p] =
                      Done("updateSettings", procs[p].args, Null,
                           FkViolation)]
    /\ UNCHANGED <<guard, variant, fk, users, activity_log, cache, now, ticks, last>>

UpdateUpsertFailsInvalidates(p) ==
    /\ At(p, "updateSettings", "upsert")
    /\ procs[p].local.todo # <<>>
    /\ cache' = cacheDelete(cache, CacheKey(procs[p].args.userId))
    /\ procs' = [procs EXCEPT ![p] =
          Done("updateSettings", procs[p].args, Null, StoreUnavailable)]
    /\ UNCHANGED <<guard, variant, fk, users, settings, activity_log, now, ticks,
                   last>>

\* The upsert of the next entry is rejected by the store for a reason of the
\* store's own: the await throws, nothing catches it, the call ends.
UpdateUpsertFails(p) ==
    /\ At(p, "updateSettings", "upsert")
    /\ procs[p].local.todo # <<>>
    /\ procs' = [procs EXCEPT ![p] =
          Done("updateSettings", procs[p].args, Null, StoreUnavailable)]
    /\ UNCHANGED <<guard, variant, fk, users, settings, activity_log, cache, now,
                   ticks, last>>

\* After the loop: the raw-SQL variant's cache.delete, and the return.
UpdateReturn(p) ==
    /\ At(p, "updateSettings", "upsert")
    /\ procs[p].local.todo = <<>>
    /\ cache' = IF variant = "pg"
                THEN cacheDelete(cache, CacheKey(procs[p].args.userId))
                ELSE cache
    /\ procs' = [procs EXCEPT ![p] =
          Done("updateSettings", procs[p].args,
               [success |-> TRUE, user |-> procs[p].local.user,
                settings |-> procs[p].local.updatedSettings], NoError)]
    /\ UNCHANGED <<guard, variant, fk, users, settings, activity_log, now, ticks,
                   last>>

\* Mutation.bulkUpdateSettings arrives; an empty list returns at once.
BulkStart(p, updates) ==
    /\ procs[p].pc = "idle"
    /\ procs' = [procs EXCEPT ![p] =
          IF updates = <<>>
          THEN Done("bulkUpdateSettings", updates,
                    [success |-> TRUE, updatedCount |-> 0,
                     failedUserIds |-> <<>>], NoError)
          ELSE Running("bulkUpdateSettings", updates, "upsert",
                       [todo |-> updates, updatedCount |-> 0,
                        failedUserIds |-> <<>>, ok |-> FALSE])]
    /\ UNCHANGED <<guard, variant, fk, users, settings, activity_log, cache, now,
                   ticks, last>>

\* The upsert of the next triple, inside the try block.
BulkUpsert(p) ==
    /\ At(p, "bulkUpdateSettings", "upsert")
    /\ LET u == Head(procs[p].local.todo) IN
       IF ForeignKeyOk(users, u.userId)
       THEN /\ settings' = UpsertSetting(settings, u.userId, u.key, u.value)
            /\ procs' = [procs EXCEPT ![p].pc = "continue",
                                      ![p].local.ok = TRUE]
       ELSE /\ settings' = settings
            /\ procs' = [procs EXCEPT ![p].pc = "continue",
                                      ![p].local.ok = FALSE]
    /\ UNCHANGED <<guard, variant, fk, users, activity_log, cache, now, ticks, last>>

\* The code after the upsert: count and cache.delete, or the catch block;
\* then the next triple, or the return.
BulkContinue(p) ==
    /\ At(p, "bulkUpdateSettings", "continue")
    /\ LET l == procs[p].local
           u == Head(l.todo)
           count == IF l.ok THEN l.updatedCount + 1 ELSE l.updatedCount
           failed == IF l.ok THEN l.failedUserIds
                     ELSE Append(l.failedUserIds, u.userId)
       IN  /\ cache' = IF l.ok /\ variant = "pg"
                       THEN cacheDelete(cache, CacheKey(u.userId)) ELSE cache
           /\ procs' = [procs EXCEPT ![p] =
                 IF Tail(l.todo) = <<>>
                 THEN Done("bulkUpdateSettings", procs[p].args,
                           [success |-> Len(failed) = 0,
                            updatedCount |-> count,
                            failedUserIds |-> failed], NoError)
                 ELSE [procs[p] EXCEPT
                          !.pc = "upsert",
                          !.local = [todo |-> Tail(l.todo),
                                     updatedCount |-> count,
                                     failedUserIds |-> failed,
                                     ok |-> FALSE]]]
    /\ UNCHANGED <<guard, variant, fk, users, settings, activity_log, now, ticks,
                   last>>

\* ---------------------------------------------------------------------------
\* Actions: the page with useExitGuard
\* ---------------------------------------------------------------------------
\* The user follows a link, or goes back or forward, to another page.
Navigate(target) ==
    /\ target # guard.location
    /\ guard' = blocker([guard EXCEPT
                            !.attempt = [by |-> "user", target |-> target,
                                         blocked |-> FALSE,
                                         error |-> NoError]], target)
    /\ UNCHANGED service

\* "Leave Anyway": the modal is open only while showModal is true.
HandleConfirm ==
    /\ guard.showModal
    /\ guard' = handleConfirm(guard)
    /\ UNCHANGED service

\* The page calls setBypass.
SetBypass(bypass) ==
    /\ guard.bypassRef # bypass
    /\ guard' = [guard EXCEPT !.bypassRef = bypass]
    /\ UNCHANGED service

\* The form is edited, or saved: the page renders the hook with another
\* hasChanges.
SetHasChanges(changes) ==
    /\ guard.hasChanges # changes
    /\ guard' = [guard EXCEPT !.hasChanges = changes]
    /\ UNCHANGED service

\* ---------------------------------------------------------------------------
\* Specifications
\* ---------------------------------------------------------------------------
\* No user row is deleted here and no time passes: a missing user is one the
\* store never held. Query.user fills the cache.
InitWrite == Init /\ fk = "none" /\ activity_log = {}

\* bulkUpdateSettings with lists long enough for a failure between two
\* successes and for two failures of one user.
NextBulk ==
    \/ \E id \in UserIds : PgUser(id)
    \/ \E u \in SeqsUpTo(BulkSettingInput, MaxBulk) : PgBulkUpdateSettings(u)
    \/ \E u \in SeqsUpTo(BulkSettingInput, MaxBulk) : KyBulkUpdateSettings(u)

SpecBulk == InitWrite /\ [][NextBulk]_vars

\* updateSettings with lists long enough for a repeated key, between
\* one-entry bulk updates.
NextUpdate ==
    \/ \E id \in UserIds : PgUser(id)
    \/ \E id \in UserIds, s \in SeqsUpTo(SettingInput, MaxSettings) :
         PgUpdateSettings(id, s)
    \/ \E id \in UserIds, s \in SeqsUpTo(SettingInput, MaxSettings) :
         KyUpdateSettings(id, s)
    \/ \E u \in SeqsUpTo(BulkSettingInput, MaxList) : PgBulkUpdateSettings(u)
    \/ \E u \in SeqsUpTo(BulkSettingInput, MaxList) : KyBulkUpdateSettings(u)

SpecUpdate == InitWrite /\ [][NextUpdate]_vars

\* The cached variant over time: every resolver, one-entry writes.
InitCache == Init /\ variant = "pg" /\ fk = "none" /\ activity_log = {}

NextCache ==
    \/ \E d \in TickSteps : Tick(d)
    \/ \E id \in AllIds : PgUser(id)
    \/ \E ids \in SeqsUpTo(AllIds, MaxIds) : PgUsers(ids)
    \/ \E id \in AllIds \cup {NoIdentity} : Me(id)
    \/ \E id \in AllIds, s \in SeqsUpTo(OneSetting, MaxList) :
         PgUpdateSettings(id, s)
    \/ \E id \in AllIds : PgDeleteUser(id)
    \/ \E u \in SeqsUpTo(OneBulkSetting, MaxList) : PgBulkUpdateSettings(u)

SpecCache == InitCache /\ [][NextCache]_vars

\* The life of one cache entry: reads of existing and missing users while time
\* passes, and the writes that invalidate.
NextTtl ==
    \/ \E d \in TickSteps : Tick(d)
    \/ \E id \in AllIds : PgUser(id)
    \/ \E id \in UserIds, s \in SeqsUpTo(OneSetting, MaxList) :
         PgUpdateSettings(id, s)
    \/ \E id \in UserIds : PgDeleteUser(id)
    \/ \E u \in SeqsUpTo(OneBulkSetting, MaxList) : PgBulkUpdateSettings(u)

SpecTtl == InitCache /\ [][NextTtl]_vars

\* Deleting users, in both variants and under every rule the store may have
\* for activity_log.user_id.
NextDelete ==
    \/ \E id \in AllIds : PgUser(id)
    \/ \E id \in AllIds, s \in SeqsUpTo(OneSetting, MaxList) :
         PgUpdateSettings(id, s)
    \/ \E id \in AllIds, s \in SeqsUpTo(OneSetting, MaxList) :
         KyUpdateSettings(id, s)
    \/ \E id \in AllIds : PgDeleteUser(id)
    \/ \E id \in AllIds : KyDeleteUser(id)

SpecDelete == Init /\ [][NextDelete]_vars

\* Who the caller is and who wrote a setting, while users are deleted: the
\* context of a request, me with the identity a context produced, updatedBy.
NextResolve ==
    \/ \E h \in RequestHeaders : Context(h)
    \/ \E h \in RequestHeaders : Me(context(h).userId)
    \/ \E p \in SettingParents : UpdatedBy(p)
    \/ \E id \in UserIds : PgDeleteUser(id)
    \/ \E id \in UserIds : KyDeleteUser(id)

SpecResolve == Init /\ [][NextResolve]_vars

\* Reads of the cached variant racing with deleteUser, statement by
\* statement.
NextRace ==
    \/ \E p \in Procs, id \in UserIds : UserStart(p, id)
    \/ \E p \in Procs : UserSelect(p)
    \/ \E p \in Procs : UserSetCache(p)
    \/ \E p \in Procs, ids \in SeqsUpTo(UserIds, MaxIds) : UsersStart(p, ids)
    \/ \E p \in Procs : UsersSelect(p)
    \/ \E p \in Procs : UsersSetCache(p)
    \/ \E p \in Procs : UsersReturn(p)
    \/ \E p \in Procs, id \in UserIds : DeleteStart(p, id)
    \/ \E p \in Procs : DeleteSettings(p)
    \/ \E p \in Procs : DeleteUsers(p)
    \/ \E p \in Procs : DeleteInvalidate(p)

SpecRace == InitCache /\ [][NextRace]_vars

\* The writes of both variants racing with each other, statement by
\* statement, under every rule of the store.
NextOrphan ==
    \/ \E p \in Procs, id \in UserIds, s \in SeqsUpTo(OneSetting, MaxList) :
         UpdateStart(p, id, s)
    \/ \E p \in Procs : UpdateSelect(p)
    \/ \E p \in Procs : UpdateUpsert(p)
    \/ \E p \in Procs : UpdateReturn(p)
    \/ \E p \in Procs, u \in SeqsUpTo(OneBulkSetting, MaxList) :
         BulkStart(p, u)
    \/ \E p \in Procs : BulkUpsert(p)
    \/ \E p \in Procs : BulkContinue(p)
    \/ \E p \in Procs, id \in UserIds : DeleteStart(p, id)
    \/ \E p \in Procs : DeleteActivity(p)
    \/ \E p \in Procs : DeleteSettings(p)
    \/ \E p \in Procs : DeleteUsers(p)
    \/ \E p \in Procs : DeleteInvalidate(p)

SpecOrphan == Init /\ [][NextOrphan]_vars

\* One updateSettings call statement by statement on a store that may reject
\* a statement, among the reads that fill the cache.
NextPartial ==
    \/ \E p \in Procs, id \in UserIds : UserStart(p, id)
    \/ \E p \in Procs : UserSelect(p)
    \/ \E p \in Procs : UserSetCache(p)
    \/ \E p \in Procs, id \in UserIds,
          s \in SeqsUpTo(KeyedSetting, MaxSettings) :
         /\ \A q \in Procs : procs[q].op # "updateSettings"
         /\ UpdateStart(p, id, s)
    \/ \E p \in Procs : UpdateSelect(p)
    \/ \E p \in Procs : UpdateUpsert(p)
    \/ \E p \in Procs : UpdateUpsertFails(p)
    \/ \E p \in Procs : UpdateReturn(p)

SpecPartial == InitWrite /\ [][NextPartial]_vars

\* The page with useExitGuard, whatever the user and the page do.
NextExit ==
    \/ \E target \in Pages : Navigate(target)
    \/ HandleConfirm
    \/ \E bypass \in BOOLEAN : SetBypass(bypass)
    \/ \E changes \in BOOLEAN : SetHasChanges(changes)

SpecExit == InitCache /\ [][NextExit]_vars

\* Every resolver of either variant, any arguments, time passing in between.
Next == NextBulk \/ NextUpdate \/ NextCache \/ NextTtl \/ NextDelete
            \/ NextResolve \/ NextRace \/ NextOrphan \/ NextPartial
            \/ NextExit
            \/ (\E id \in AllIds : KyUser(id))
            \/ (\E ids \in SeqsUpTo(AllIds, MaxIds) : KyUsers(ids))

Spec == Init /\ [][Next]_vars

\* ---------------------------------------------------------------------------
\* Properties
\* ---------------------------------------------------------------------------
IsCall(op) == last.op = op
UserExists(id) == \E r \in users : r.id = id
SettingValues(userId, key) ==
    {r.setting_value : r \in {x \in settings :
                                x.user_id = userId /\ x.setting_key = key}}

\* C1: bulkUpdateSettings returns without raising after one upsert statement
\* per triple of the input, issued in input order, whether earlier ones failed
\* or not; and for every triple whose upsert succeeded the store then holds
\* the row of its (user, key), with the value of the last successful triple
\* of that (user, key): nothing is rolled back.
C1_BulkIsolatedFailure ==
    IsCall("bulkUpdateSettings") =>
        /\ last.error = NoError
        /\ Len(last.stmts) = Len(last.args)
        /\ \A i \in 1..Len(last.args) :
             /\ last.stmts[i].sql = "upsert"
             /\ last.stmts[i].user_id = last.args[i].userId
             /\ last.stmts[i].key = last.args[i].key
             /\ last.stmts[i].value = last.args[i].value
        /\ \A i \in 1..Len(last.args) :
             last.stmts[i].ok =>
               LET same == {j \in 1..Len(last.args) :
                              /\ last.stmts[j].ok
                              /\ last.args[j].userId = last.args[i].userId
                              /\ last.args[j].key = last.args[i].key}
                   final == CHOOSE j \in same : \A k \in same : k <= j
               IN  SettingValues(last.args[i].userId, last.args[i].key)
                     = {last.args[final].value}

\* A call whose second upsert failed between two that succeeded.
C1_Witness ==
    /\ IsCall("bulkUpdateSettings")
    /\ Len(last.stmts) = 3
    /\ last.stmts[1].ok /\ ~last.stmts[2].ok /\ last.stmts[3].ok
    /\ SettingValues(last.args[1].userId, last.args[1].key) = {"v1"}
    /\ SettingValues(last.args[3].userId, last.args[3].key) = {"v1"}

\* C2: the failedUserIds a bulkUpdateSettings call returns holds no user id
\* twice.
C2_FailedIdsDistinct ==
    IsCall("bulkUpdateSettings") =>
        \A i, j \in 1..Len(last.result.failedUserIds) :
            last.result.failedUserIds[i] = last.result.failedUserIds[j]
                => i = j

\* C3: bulkUpdateSettings returns a result; updatedCount is the number of
\* triples whose user exists, the ids in failedUserIds are exactly the user
\* ids of the triples whose user does not exist, and success is true exactly
\* when failedUserIds is empty.
C3_BulkResult ==
    IsCall("bulkUpdateSettings") =>
        /\ last.error = NoError
        /\ last.result.updatedCount =
             Cardinality({i \in 1..Len(last.args) :
                            UserExists(last.args[i].userId)})
        /\ \A i \in 1..Len(last.args) :
             last.stmts[i].ok <=> UserExists(last.args[i].userId)
        /\ Range(last.result.failedUserIds) =
             {last.args[i].userId : i \in
                {j \in 1..Len(last.args) : ~UserExists(last.args[j].userId)}}
        /\ last.result.success <=> (last.result.failedUserIds = <<>>)

\* The call of the worked example: two triples of an existing user around one
\* of a missing user.
C3_Witness ==
    /\ IsCall("bulkUpdateSettings")
    /\ Len(last.args) = 3
    /\ last.args[1].key # last.args[3].key
    /\ last.result = [success |-> FALSE, updatedCount |-> 2,
                      failedUserIds |-> <<last.args[2].userId>>]

\* C9: when bulkUpdateSettings has returned, the cache holds no entry under
\* "user:" + id for any id one of whose triples was upserted.
C9_BulkInvalidates ==
    IsCall("bulkUpdateSettings") =>
        \A i \in 1..Len(last.args) :
            last.stmts[i].ok => CacheKey(last.args[i].userId) \notin DOMAIN cache

\* A cached variant's call that updated one user while another user's entry,
\* put there by Query.user, stayed in the cache.
C9_Witness ==
    /\ IsCall("bulkUpdateSettings")
    /\ variant = "pg"
    /\ \E i \in 1..Len(last.args) : last.stmts[i].ok
    /\ \E id \in UserIds :
         /\ CacheKey(id) \in DOMAIN cache
         /\ \A i \in 1..Len(last.args) : last.args[i].userId # id

\* C4: a step that is an updateSettings call for a user id with no user row
\* raises "User not found" and changes no table and no cache entry, however
\* long its settings list is.
C4_UpdateNotFound ==
    [][(last'.op = "updateSettings" /\ ~UserExists(last'.args.userId)) =>
          /\ last'.error = NotFound
          /\ UNCHANGED <<users, settings, activity_log, cache>>]_vars

\* A call with two settings for a missing user, made when the store held
\* settings of another user.
C4_Witness ==
    /\ IsCall("updateSettings")
    /\ last.error = NotFound
    /\ Len(last.args.settings) = 2
    /\ settings # {}

\* C5: the settings table never holds two rows with one (user_id,
\* setting_key); and after an updateSettings call that returned, the stored
\* value of every key of its list is the value of the last entry with that key.
C5_UniqueLastWins ==
    /\ \A r1, r2 \in settings :
         (r1.user_id = r2.user_id /\ r1.setting_key = r2.setting_key)
             => r1 = r2
    /\ (IsCall("updateSettings") /\ last.error = NoError) =>
         \A i \in 1..Len(last.args.settings) :
            LET same == {j \in 1..Len(last.args.settings) :
                           last.args.settings[j].key = last.args.settings[i].key}
                final == CHOOSE j \in same : \A k \in same : k <= j
            IN  SettingValues(last.args.userId, last.args.settings[i].key)
                  = {last.args.settings[final].value}

\* A call that listed one key twice with two values.
C5_Witness ==
    /\ IsCall("updateSettings")
    /\ last.error = NoError
    /\ Len(last.args.settings) = 2
    /\ last.args.settings[1].key = last.args.settings[2].key
    /\ last.args.settings[1].value # last.args.settings[2].value
    /\ SettingValues(last.args.userId, last.args.settings[1].key)
         = {last.args.settings[2].value}

\* C8: a step that is an updateSettings call which returns leaves no cache
\* entry under "user:" + userId, and a user(userId) call that comes right
\* after it issues its SELECT.
C8_UpdateInvalidates ==
    [][/\ (last'.op = "updateSettings" /\ last'.error = NoError) =>
             CacheKey(last'.args.userId) \notin DOMAIN cache'
       /\ (/\ IsCall("updateSettings") /\ last.error = NoError
           /\ last'.op = "user" /\ last'.args = last.args.userId) =>
             Len(last'.stmts) = 1]_vars

\* The cached variant's updateSettings returned for one user while the other
\* user's entry stayed in the cache.
C8_Witness ==
    /\ IsCall("updateSettings")
    /\ last.error = NoError
    /\ variant = "pg"
    /\ Len(last.args.settings) > 0
    /\ \E id \in UserIds \ {last.args.userId} : CacheKey(id) \in DOMAIN cache

\* C6: whatever a user(id) or users(ids) call of the cached variant returns
\* is what the uncached variant's resolver returns from the store as it is.
C6_CacheAdvisory ==
    /\ IsCall("user") => last.result = kyUser(last.args, users)
    /\ IsCall("users") => last.result = kyUsers(last.args, users)

\* C7: a step that is a user(id) call for an existing user whose entry is in
\* the cache (an earlier call put it there and no write has removed it since)
\* issues no statement when the entry is younger than the TTL, and issues its
\* SELECT when the entry's age has reached the TTL.
C7_TtlWindow ==
    [][\A id \in UserIds :
         (/\ last'.op = "user" /\ last'.args = id /\ now' = now
          /\ UserExists(id)
          /\ CacheKey(id) \in DOMAIN cache) =>
            /\ (now - cache[CacheKey(id)].timestamp < CACHE_TTL) =>
                   (last'.stmts = <<>> /\ last'.result = UserRow(id))
            /\ (now - cache[CacheKey(id)].timestamp >= CACHE_TTL) =>
                   (Len(last'.stmts) = 1 /\ last'.result = UserRow(id))]_vars

\* A call served from the cache in the last millisecond of the entry's
\* window.
C7_Witness ==
    /\ IsCall("user")
    /\ last.stmts = <<>>
    /\ last.result # Null
    /\ CacheKey(last.args) \in DOMAIN cache
    /\ now - cache[CacheKey(last.args)].timestamp = CACHE_TTL - 1

\* C10: a deleteUser(id) call that returns has issued the deletes of the
\* user's activity entries, of the user's settings and of the user row, in
\* that order; the store then holds no activity entry, no setting and no user
\* row of that id, and the cache no entry under "user:" + id.
C10_DeleteChildrenFirst ==
    (IsCall("deleteUser") /\ last.error = NoError) =>
        /\ [i \in 1..Len(last.stmts) |-> last.stmts[i].sql] =
              <<"delete_activity_log", "delete_settings", "delete_users">>
        /\ \A a \in activity_log : a.user_id # last.args
        /\ \A r \in settings : r.user_id # last.args
        /\ ~UserExists(last.args)
        /\ CacheKey(last.args) \notin DOMAIN cache

\* C11: every deleteUser(id) call, for an id with or without a user row and
\* under every rule the store enforces, returns success = true and
\* deletedId = id without raising; and a deleteUser(id) call that comes right
\* after a deleteUser(id) call returns the same result and changes no table.
C11_DeleteIdempotent ==
    [][/\ last'.op = "deleteUser" =>
             /\ last'.error = NoError
             /\ last'.result = [success |-> TRUE, deletedId |-> last'.args]
       /\ (IsCall("deleteUser") /\ last'.op = "deleteUser"
              /\ last'.args = last.args) =>
             /\ last'.result = last.result
             /\ UNCHANGED <<users, settings, activity_log>>]_vars

\* C12: an updateSettings call for a user that has a user row returns, and
\* the settings list it returns has the length of the input list, its i-th
\* element being the setting the i-th entry's upsert wrote (the entry's key
\* and value), also where one key occurs more than once in the input.
C12_ReturnedSettings ==
    (IsCall("updateSettings") /\ UserExists(last.args.userId)) =>
        /\ last.error = NoError
        /\ last.result.success
        /\ Len(last.result.settings) = Len(last.args.settings)
        /\ \A i \in 1..Len(last.args.settings) :
             /\ last.result.settings[i].key = last.args.settings[i].key
             /\ last.result.settings[i].value = last.args.settings[i].value

\* A call whose list names one key twice, with two values, and got both
\* settings back in that order.
C12_Witness ==
    /\ IsCall("updateSettings")
    /\ UserExists(last.args.userId)
    /\ Len(last.args.settings) = 2
    /\ last.args.settings[1].key = last.args.settings[2].key
    /\ last.args.settings[1].value # last.args.settings[2].value
    /\ Len(last.result.settings) = 2
    /\ last.result.settings[1].value = last.args.settings[1].value
    /\ last.result.settings[2].value = last.args.settings[2].value

\* C13: whatever the ids and whatever the cache holds, a users(ids) call
\* returns a list of the length of ids whose i-th element is the users row
\* with id ids[i], or null when the store has no such row.
C13_UsersByPosition ==
    IsCall("users") =>
        /\ last.error = NoError
        /\ Len(last.result) = Len(last.args)
        /\ \A i \in 1..Len(last.args) :
             last.result[i] = IF UserExists(last.args[i])
                              THEN UserRow(last.args[i]) ELSE Null

\* C14: a step that is an updateSettings call with the empty list, for a user
\* that has a user row, returns success = true and an empty settings list and
\* changes no users row and no settings row.
C14_EmptyUpdate ==
    [][(/\ last'.op = "updateSettings"
        /\ last'.args.settings = <<>>
        /\ UserExists(last'.args.userId)) =>
          /\ last'.error = NoError
          /\ last'.result.success
          /\ last'.result.settings = <<>>
          /\ UNCHANGED <<users, settings>>]_vars

\* An empty update of a user whose settings the store held.
C14_Witness ==
    /\ IsCall("updateSettings")
    /\ last.args.settings = <<>>
    /\ last.error = NoError
    /\ last.result.settings = <<>>
    /\ \E r \in settings : r.user_id = last.args.userId

\* C15: get returns the stored value of every entry whose age is at most the
\* TTL and reports absent for every entry whose age is more than the TTL; and
\* a read (user, users) removes no entry from the cache, stale or not.
C15_GetWithinTtl ==
    [][/\ \A k \in DOMAIN cache :
            /\ (now - cache[k].timestamp <= CACHE_TTL) =>
                   getCache(cache, now, k) = cache[k].data
            /\ (now - cache[k].timestamp > CACHE_TTL) =>
                   getCache(cache, now, k) = Null
       /\ (last'.op \in {"user", "users"}) =>
            DOMAIN cache \subseteq DOMAIN cache']_vars

\* C16: a Setting.updatedBy call on a setting without a recorded updater id
\* returns null and issues no statement; on a setting with one it issues
\* exactly one statement, the point lookup of that user, and returns the
\* user's row, or null when the store has no such row.
C16_UpdatedBy ==
    IsCall("updatedBy") =>
        /\ last.error = NoError
        /\ (last.args.updatedById = NoUpdater) =>
              (last.result = Null /\ last.stmts = <<>>)
        /\ (last.args.updatedById # NoUpdater) =>
              /\ Len(last.stmts) = 1
              /\ last.stmts[1].sql = "select_user"
              /\ last.stmts[1].user_id = last.args.updatedById
              /\ last.result = IF UserExists(last.args.updatedById)
                               THEN UserRow(last.args.updatedById) ELSE Null

\* The updater of a setting was looked up and is no longer there, while
\* another user is.
C16_Witness ==
    /\ IsCall("updatedBy")
    /\ last.args.updatedById \in UserIds
    /\ Len(last.stmts) = 1
    /\ last.result = Null
    /\ users # {}

\* C17: a me call never raises; without a caller identity it returns null and
\* issues no statement; with the identity of a user that has no user row it
\* returns null; otherwise it returns the caller's row.
C17_MeNullNotError ==
    IsCall("me") =>
        /\ last.error = NoError
        /\ (last.args = NoIdentity) =>
              (last.result = Null /\ last.stmts = <<>>)
        /\ (last.args # NoIdentity /\ ~UserExists(last.args)) =>
              last.result = Null
        /\ (last.args # NoIdentity /\ UserExists(last.args)) =>
              last.result = UserRow(last.args)

\* me was called with the identity of a user that has no row any more, and
\* looked for it.
C17_Witness ==
    /\ IsCall("me")
    /\ last.args \in UserIds
    /\ ~UserExists(last.args)
    /\ last.result = Null
    /\ Len(last.stmts) = 1

\* C18: building the context never raises; the context carries an identity
\* only if the request has an authorization header whose credential, the
\* scheme cut off, is base64 of a JSON value with a userId, and then the
\* identity is that userId; without the header, or with a credential that
\* does not decode, the context carries no identity.
C18_ContextNeverFails ==
    IsCall("context") =>
        /\ last.error = NoError
        /\ ("authorization" \notin DOMAIN last.args) =>
              last.result.userId = NoIdentity
        /\ ("authorization" \in DOMAIN last.args) =>
              LET token == Replace(last.args["authorization"], "Bearer ")
                  decoded == JsonParse(Base64Decode(token))
              IN  IF decoded.ok /\ decoded.type = "object"
                  THEN last.result.userId = decoded.userId
                  ELSE last.result.userId = NoIdentity

\* The context of a request whose credential is base64 of the JSON null:
\* it parses, and reading its userId throws.
C18_Witness ==
    /\ IsCall("context")
    /\ "authorization" \in DOMAIN last.args
    /\ last.args["authorization"] = "Bearer bnVsbA=="
    /\ last.result.userId = NoIdentity
    /\ last.error = NoError

\* C19: when every request has finished and a deleteUser(id) has returned,
\* get finds nothing under "user:" + id, whichever way the statements of the
\* user(id) and users(ids) calls and of the deleteUser call were interleaved.
C19_NoEntryAfterDelete ==
    \A id \in UserIds :
        (/\ \A p \in Procs : procs[p].pc \in {"idle", "done"}
         /\ \E p \in Procs : /\ At(p, "deleteUser", "done")
                             /\ procs[p].args = id
                             /\ procs[p].error = NoError) =>
            getCache(cache, now, CacheKey(id)) = Null

\* C20: in every state the writes of either variant reach, statement by
\* statement and interleaved in any way, every settings row and every
\* activity entry has the users row it belongs to.
C20_NoOrphans ==
    /\ \A r \in settings : UserExists(r.user_id)
    /\ \A a \in activity_log : UserExists(a.user_id)

\* C21: an updateSettings call upserts the entries of its list one statement
\* at a time, in list order, each upsert in the store as soon as it has run;
\* the step in which the upsert of the k-th entry fails ends the call with an
\* error, writes no row and takes none back (the rows of the first k-1
\* entries are in the store), and leaves the cache as it was.
C21_PartialUpdate ==
    [][\A p \in Procs :
         At(p, "updateSettings", "upsert") =>
            LET userId == procs[p].args.userId
                list == procs[p].args.settings
                k == Len(list) - Len(procs[p].local.todo) + 1
            IN  /\ (procs'[p].pc = "upsert" /\ procs'[p] # procs[p]) =>
                     /\ procs'[p].local.todo = Tail(procs[p].local.todo)
                     /\ \E r \in settings' :
                          /\ r.user_id = userId
                          /\ r.setting_key = list[k].key
                          /\ r.setting_value = list[k].value
                /\ (procs'[p].pc = "done" /\ procs'[p].error # NoError) =>
                     /\ UNCHANGED <<users, settings, activity_log, cache>>
                     /\ \A j \in 1..(k - 1) :
                          \E r \in settings' : /\ r.user_id = userId
                                               /\ r.setting_key = list[j].key]_vars

\* A call of the cached variant whose second upsert the store rejected: the
\* first entry's row is in the store, the second's is not, and the user's
\* cache entry is still there.
C21_Witness ==
    \E p \in Procs :
        /\ At(p, "updateSettings", "done")
        /\ procs[p].error = StoreUnavailable
        /\ Len(procs[p].args.settings) = 2
        /\ procs[p].args.settings[1].key # procs[p].args.settings[2].key
        /\ SettingValues(procs[p].args.userId,
                         procs[p].args.settings[1].key)
             = {procs[p].args.settings[1].value}
        /\ SettingValues(procs[p].args.userId,
                         procs[p].args.settings[2].key) = {}
        /\ CacheKey(procs[p].args.userId) \in DOMAIN cache

\* C22: a step that is a user(id) call for an id without a user row returns
\* null, issues its SELECT and leaves the cache as it was; a users(ids) call
\* does the same for each of its ids without a user row; and whatever a step
\* puts in the cache is a row the store holds at that step.
C22_NoAbsentCached ==
    [][/\ (last'.op = "user" /\ ~UserExists(last'.args)) =>
             /\ last'.result = Null
             /\ Len(last'.stmts) = 1
             /\ cache' = cache
       /\ (last'.op = "users") =>
             \A i \in 1..Len(last'.args) :
                ~UserExists(last'.args[i]) =>
                   /\ last'.result[i] = Null
                   /\ \E j \in 1..Len(last'.stmts) :
                         last'.stmts[j].user_id = last'.args[i]
                   /\ CacheKey(last'.args[i]) \notin DOMAIN cache'
       /\ \A k \in DOMAIN cache' :
             (k \notin DOMAIN cache \/ cache'[k] # cache[k]) =>
                 cache'[k].data \in users]_vars

\* C23: a navigation that is blocked while the modal is open puts its target
\* in nextLocation, whatever was there; and handleConfirm, called after
\* blocked navigations, navigates to the target of the last of them.
C23_SecondTargetWins ==
    [][/\ (/\ guard.showModal
           /\ guard'.attempt.by = "user" /\ guard'.attempt.blocked
           /\ guard'.attempt # guard.attempt) =>
             guard'.nextLocation = [pathname |-> guard'.attempt.target]
       /\ (/\ guard.attempt.by = "user" /\ guard.attempt.blocked
           /\ guard'.attempt.by = "handleConfirm") =>
             /\ guard'.attempt.target = guard.attempt.target
             /\ guard'.location = guard.attempt.target]_vars

\* The timeline of the source: the link to /page-a opened the modal, the link
\* to /page-b was blocked while it was open, "Leave Anyway" led to /page-b.
C23_Witness ==
    /\ guard.attempt.by = "handleConfirm"
    /\ guard.opened = "/page-a"
    /\ guard.attempt.target = "/page-b"
    /\ guard.location = "/page-b"

====
